---------------------------- MODULE Spec2Model ----------------------------
(* Proof-of-work evaluation core (package pow): the process-wide lookup    *)
(* table, the per-evaluation State, the three work-value variants, the     *)
(* verifier and the block level.                                           *)
(*                                                                         *)
(* Representation.  A uint64 is its 8 little-endian bytes <<b1..b8>>; a     *)
(* big.Int is [neg, abs] with abs the big-endian magnitude without leading *)
(* zero bytes; a DomainHash is a sequence of DomainHashSize bytes.  The    *)
(* hash functions and the matrix transform are collaborators outside this  *)
(* package: they are modelled as fixed deterministic byte mixers.          *)
EXTENDS Integers, Sequences, FiniteSets, TLC

(***************************************************************************)
(* Bounds of the model                                                     *)
(***************************************************************************)
NumProcs == 2            \* goroutines, each with its own header and State
MaxCalls == 3            \* top-level calls one goroutine makes
MaxIncrements == 2       \* IncrementNonce calls on one State
tableSize == 2           \* entries of lookupTable (1 << 20 in the source)
Lookups == 2             \* rounds of timeMemoryTradeoff (1000 in the source)
memorySize == 8          \* words of the scratchpad (1 << 10 in the source)
VdfIterations == 2       \* squarings of the delay function (1000 in the source)
VdfModulus == 32749      \* modulus of the delay function (2^256 - 2^32 - 977 in the source)

(***************************************************************************)
(* Program constants                                                       *)
(***************************************************************************)
DomainHashSize == 32
WordBytes == 8
MhfIterations == 2
MhfOutWords == 8
SeedSize == 32

Procs == 1..NumProcs
Byte == 0..255

(***************************************************************************)
(* uint64 arithmetic on little-endian bytes                                *)
(***************************************************************************)
U64Zero == [k \in 1..WordBytes |-> 0]
U64Max == [k \in 1..WordBytes |-> 255]

RECURSIVE IncFrom(_, _)
IncFrom(w, k) ==
    IF k > WordBytes THEN w
    ELSE IF w[k] = 255 THEN IncFrom([w EXCEPT ![k] = 0], k + 1)
    ELSE [w EXCEPT ![k] = w[k] + 1]

\* w + 1 that stops at the largest value instead of wrapping
U64Inc_Saturating(w) == IF w = U64Max THEN w ELSE IncFrom(w, 1)

\* w + 1 on a uint64: the carry out of the top byte is dropped
U64Inc(w) == IncFrom(w, 1)

RECURSIVE ModFrom(_, _, _, _)
ModFrom(w, k, n, acc) ==
    IF k = 0 THEN acc ELSE ModFrom(w, k - 1, n, (acc * 256 + w[k]) % n)

\* w % n for 0 < n < 2^20
U64Mod(w, n) == ModFrom(w, WordBytes, n, 0)

\* w >> 32
U64Shr32(w) == [k \in 1..WordBytes |-> IF k + 4 <= WordBytes THEN w[k + 4] ELSE 0]

RECURSIVE XorByte(_, _)
XorByte(a, b) ==
    IF a = 0 THEN b
    ELSE IF b = 0 THEN a
    ELSE ((a + b) % 2) + 2 * XorByte(a \div 2, b \div 2)

U64Xor(v, w) == [k \in 1..WordBytes |-> XorByte(v[k], w[k])]

\* (w << 1) | (w >> 63)
U64RotL1(w) ==
    [k \in 1..WordBytes |->
        ((2 * w[k]) % 256) + (w[IF k = 1 THEN WordBytes ELSE k - 1] \div 128)]

\* a small non-negative integer as a uint64
RECURSIVE IntToLE(_, _)
IntToLE(n, len) == IF len = 0 THEN <<>> ELSE <<n % 256>> \o IntToLE(n \div 256, len - 1)

SeqReverse(s) == [k \in 1..Len(s) |-> s[Len(s) + 1 - k]]

Take(s, n) == SubSeq(s, 1, n)

\* binary.LittleEndian.Uint64 / binary.BigEndian.Uint64 of the leading bytes
LittleEndianUint64(bytes) == Take(bytes, WordBytes)
BigEndianUint64(bytes) == SeqReverse(Take(bytes, WordBytes))

(***************************************************************************)
(* Byte mixers standing for the hash functions                             *)
(***************************************************************************)
\* a position-weighted sum of the bytes of bytes[lo..hi], modulo 65521
RECURSIVE Absorb(_, _, _)
Absorb(bytes, lo, hi) ==
    IF lo > hi THEN 0
    ELSE IF lo = hi THEN ((bytes[lo] + 1) * (((lo * 131 + 17) * (lo + 3)) % 65521)) % 65521
    ELSE LET mid == (lo + hi) \div 2
         IN (Absorb(bytes, lo, mid) + Absorb(bytes, mid + 1, hi)) % 65521

Squeeze(s, n) ==
    [k \in 1..n |-> (((s + 13) * (2 * k + 1) + (s \div 251) * k * k) \div 5) % 256]

Digest(tag, bytes, n) ==
    Squeeze((Absorb(bytes, 1, Len(bytes)) * 31 + tag * 977 + Len(bytes)) % 65521, n)

Sha256(bytes) == Digest(11, bytes, 32)
Blake2b512(bytes) == Digest(23, bytes, 64)
PoWHash(bytes) == Digest(37, bytes, DomainHashSize)
Blake3Hash(bytes) == Digest(41, bytes, DomainHashSize)

(***************************************************************************)
(* math/big                                                                *)
(***************************************************************************)
RECURSIVE StripZeros(_)
StripZeros(s) ==
    IF s = <<>> THEN <<>>
    ELSE IF Head(s) = 0 THEN StripZeros(Tail(s))
    ELSE s

\* new(big.Int).SetBytes(buf): buf is a big-endian unsigned integer
SetBytes(buf) == [neg |-> FALSE, abs |-> StripZeros(buf)]

RECURSIVE LexCmp(_, _)
LexCmp(a, b) ==
    IF a = <<>> THEN 0
    ELSE IF Head(a) < Head(b) THEN -1
    ELSE IF Head(a) > Head(b) THEN 1
    ELSE LexCmp(Tail(a), Tail(b))

CmpAbs(a, b) ==
    IF Len(a) < Len(b) THEN -1
    ELSE IF Len(a) > Len(b) THEN 1
    ELSE LexCmp(a, b)

\* x.Cmp(y): -1 if x < y, 0 if x = y, +1 if x > y
Cmp(x, y) ==
    IF x.neg /\ ~y.neg THEN -1
    ELSE IF ~x.neg /\ y.neg THEN 1
    ELSE IF x.neg THEN CmpAbs(y.abs, x.abs)
    ELSE CmpAbs(x.abs, y.abs)

RECURSIVE BitLenByte(_)
BitLenByte(b) == IF b = 0 THEN 0 ELSE 1 + BitLenByte(b \div 2)

\* x.BitLen(): the length of |x| in bits, 0 for x = 0
BitLen(x) ==
    IF x.abs = <<>> THEN 0
    ELSE (Len(x.abs) - 1) * 8 + BitLenByte(x.abs[1])

(***************************************************************************)
(* Collaborators of the package: header hashing, compact targets, the      *)
(* matrix transform, serialization                                         *)
(***************************************************************************)
Zeroes(n) == [k \in 1..n |-> 0]

\* serialization.WriteElement of an int64 / uint64: 8 little-endian bytes
WriteInt64(t) == IntToLE(t, WordBytes)
WriteUint64(w) == w

\* consensushashing.HeaderHash(header): a hash over every field of the header
\* as it is when the call is made, timestamp and nonce included
HeaderHash(h) ==
    Digest(53,
           <<h.Version, Len(h.DirectParents)>> \o h.DirectParents
             \o WriteInt64(h.TimeInMilliseconds) \o h.Bits \o WriteUint64(h.Nonce),
           DomainHashSize)

\* difficulty.CompactToBig(bits): bits is <<exponent, m1, m2, m3>>; the top
\* bit of m1 is the sign, the other 23 bits are the mantissa
CompactToBig(bits) ==
    LET exponent == bits[1]
        mantissa == <<bits[2] % 128, bits[3], bits[4]>>
        isNegative == bits[2] >= 128
        abs == IF exponent <= 3
               THEN StripZeros(Take(mantissa, exponent))
               ELSE StripZeros(mantissa \o Zeroes(exponent - 3))
    IN [neg |-> isNegative /\ abs # <<>>, abs |-> abs]

\* generateMatrix(hash): the matrix handle, a function of the hash alone
generateMatrix(hash) == Digest(59, hash, 4)

\* mat.bHeavyHash(hash): 32-byte digest
bHeavyHash(mat, hash) == Digest(61, mat \o hash, DomainHashSize)

\* mat.HoohashMatrixMultiplication(hash): byte sequence
HoohashMatrixMultiplication(mat, hash) == Digest(67, mat \o hash, DomainHashSize)

(***************************************************************************)
(* package pow: pure functions                                             *)
(***************************************************************************)
\* the value generateHoohashLookupTable stores at index i
TableValue(i) ==
    LET seed == SeqReverse(IntToLE(i, 4)) \o Zeroes(SeedSize - 4)
        hash == Sha256(seed)
    IN BigEndianUint64(Take(hash, 8))

\* one round of timeMemoryTradeoff on the accumulator, entry is the value
\* read from lookupTable[result % tableSize]
TradeoffIndex(result) == U64Mod(result, tableSize)
TradeoffRound(result, entry) == U64RotL1(U64Xor(result, entry))

\* every update of an iteration reading the scratchpad as the iteration found it
RECURSIVE MhfLoop_Snapshot(_, _, _)
MhfLoop_Snapshot(memory, i, j) ==
    IF i = MhfIterations THEN memory
    ELSE MhfLoop_Snapshot(
             [k \in 1..memorySize |->
                 LET index1 == U64Mod(memory[k], memorySize)
                     index2 == U64Mod(U64Shr32(memory[k]), memorySize)
                 IN LittleEndianUint64(
                        Blake2b512(memory[index1 + 1] \o memory[index2 + 1]))],
             i + 1, 0)

RECURSIVE MhfLoop(_, _, _)
MhfLoop(memory, i, j) ==
    IF i = MhfIterations THEN memory
    ELSE IF j = memorySize THEN MhfLoop(memory, i + 1, 0)
    ELSE LET index1 == U64Mod(memory[j + 1], memorySize)
             index2 == U64Mod(U64Shr32(memory[j + 1]), memorySize)
             hash == Blake2b512(memory[index1 + 1] \o memory[index2 + 1])
         IN MhfLoop([memory EXCEPT ![j + 1] = LittleEndianUint64(hash)], i, j + 1)

RECURSIVE Concat(_, _)
Concat(words, n) == IF n = 0 THEN <<>> ELSE Concat(words, n - 1) \o words[n]

memoryHardFunction(input) ==
    LET memory == [j \in 1..memorySize |-> LittleEndianUint64(input)]
    IN Concat(MhfLoop(memory, 0, 0), MhfOutWords)


RECURSIVE PowMod(_, _, _)
PowMod(b, e, n) ==
    IF e = 0 THEN 1 % n
    ELSE LET h == PowMod(b, e \div 2, n)
         IN (((h * h) % n) * (IF e % 2 = 1 THEN b ELSE 1)) % n

\* the big-endian integer bytes[lo..hi] modulo n
RECURSIVE ModBytes(_, _, _, _)
ModBytes(bytes, lo, hi, n) ==
    IF lo > hi THEN 0
    ELSE IF lo = hi THEN bytes[lo] % n
    ELSE LET mid == (lo + hi) \div 2
         IN (ModBytes(bytes, lo, mid, n) * PowMod(256, hi - mid, n)
               + ModBytes(bytes, mid + 1, hi, n)) % n

RECURSIVE Squarings(_, _)
Squarings(x, i) == IF i = 0 THEN x ELSE Squarings((x * x) % VdfModulus, i - 1)

verifiableDelayFunction(input) ==
    LET x == Squarings(ModBytes(input, 1, Len(input), VdfModulus), VdfIterations)
    IN Sha256(StripZeros(SeqReverse(IntToLE(x, 4))))

RECURSIVE SwapLoop(_, _)
SwapLoop(buf, i) ==
    LET blen == Len(buf) IN
    IF i >= blen \div 2 THEN buf
    ELSE SwapLoop([buf EXCEPT ![i + 1] = buf[blen - i], ![blen - i] = buf[i + 1]], i + 1)

\* the hash parsed as it stands, without the reversal
toBig_BigEndian(hash) == SetBytes(hash)

\* toBig(hash): the hash read as a little-endian integer
toBig(hash) == SetBytes(SwapLoop(hash, 0))

\* PRE_POW_HASH || TIME || 32 zero byte padding || NONCE
PowMessage(state) ==
    state.prePowHash \o WriteInt64(state.Timestamp)
      \o Zeroes(32) \o WriteUint64(state.Nonce)

CalculateProofOfWorkValue(state) ==
    LET powHash == PoWHash(PowMessage(state))
        hash == bHeavyHash(state.mat, powHash)
    IN toBig(hash)

CalculateProofOfWorkValueHoohashRev1(state) ==
    LET powHash == Blake3Hash(PowMessage(state))
        multiplied == HoohashMatrixMultiplication(state.mat, powHash)
    IN toBig(Blake3Hash(multiplied))

\* the part of the rev2 variant before timeMemoryTradeoff
Rev2MemoryHardResult(state) == memoryHardFunction(Blake3Hash(PowMessage(state)))

\* the whole concatenation handed to the matrix multiplication
Rev2Combine_Whole(state, memoryHardResult, vdfResult, tradeoffResult) ==
    LET combined == (memoryHardResult \o vdfResult) \o <<tradeoffResult[1]>>
        multiplied == HoohashMatrixMultiplication(state.mat, combined)
    IN toBig(Blake3Hash(multiplied))

\* combined := R || V || byte(T), converted to *[32]byte, multiplied, hashed
Rev2Combine(state, memoryHardResult, vdfResult, tradeoffResult) ==
    LET combined == (memoryHardResult \o vdfResult) \o <<tradeoffResult[1]>>
        multiplied == HoohashMatrixMultiplication(state.mat, Take(combined, DomainHashSize))
    IN toBig(Blake3Hash(multiplied))

\* the part of the rev2 variant after timeMemoryTradeoff
Rev2Finish(state, memoryHardResult, tradeoffResult) ==
    Rev2Combine(state, memoryHardResult,
                verifiableDelayFunction(memoryHardResult), tradeoffResult)

(***************************************************************************)
(* Inputs                                                                  *)
(***************************************************************************)
None == <<>>
Some(v) == <<v>>

\* compact targets: 0x207fffff (about half of all work values pass) and
\* 0x2000ffff (few pass)
BitsChoices == {<<32, 127, 255, 255>>, <<32, 0, 255, 255>>}
Times == {0, 77}
Nonces == {U64Zero, [U64Max EXCEPT ![1] = 254], U64Max}
ParentChoices == {<<>>, <<1>>}
MaxBlockLevels == {-1, 225, 300}

Headers ==
    [Version : {1}, DirectParents : ParentChoices, Bits : BitsChoices,
     TimeInMilliseconds : Times, Nonce : Nonces]

DefaultHeader ==
    [Version |-> 1, DirectParents |-> <<1>>, Bits |-> <<32, 127, 255, 255>>,
     TimeInMilliseconds |-> 77, Nonce |-> [U64Max EXCEPT ![1] = 254]]

BigZero == [neg |-> FALSE, abs |-> <<>>]

Methods == {"CalculateProofOfWorkValue", "CalculateProofOfWorkValueHoohashRev1",
            "CalculateProofOfWorkValueHoohashRev2", "CheckProofOfWork",
            "IncrementNonce"}
Functions == {"NewState", "CheckProofOfWorkByBits", "BlockLevel"}
Results == (Methods \ {"IncrementNonce"}) \cup {"CheckProofOfWorkByBits", "BlockLevel"}

Entry(o) ==
    CASE o = "NewState" -> "ns_target"
      [] o = "CheckProofOfWorkByBits" -> "ns_target"
      [] o = "BlockLevel" -> "bl_parents"
      [] o = "CalculateProofOfWorkValue" -> "calc"
      [] o = "CalculateProofOfWorkValueHoohashRev1" -> "rev1"
      [] o = "CalculateProofOfWorkValueHoohashRev2" -> "rev2"
      [] o = "CheckProofOfWork" -> "check"
      [] o = "IncrementNonce" -> "inc"

(***************************************************************************)
(* State of the program                                                    *)
(***************************************************************************)
VARIABLES
    lookupTable,   \* the process-wide table, index 0..tableSize-1
    header,        \* header[p]: the header goroutine p works on
    state,         \* state[p]: the State goroutine p got from NewState, or None
    pc,            \* pc[p]: where goroutine p is
    op,            \* op[p]: the exported function p's caller invoked, or "none"
    locals,        \* locals[p]: local variables of the running call
    ret,           \* ret[p][o]: what o last returned to p for the present State and nonce
    calls,         \* calls[p]: calls p may still make
    incs,          \* incs[p]: IncrementNonce calls on state[p] since it was built
    built,         \* some NewState call has returned
    original       \* original[p]: header[p] as the caller handed it over

vars == <<lookupTable, header, state, pc, op, locals, ret, calls, incs, built, original>>

LocalsInit ==
    [target |-> BigZero, timestamp |-> 0, nonce |-> U64Zero, prePowHash |-> <<>>,
     i |-> 0, maxBlockLevel |-> 0, state |-> None, memoryHardResult |-> <<>>,
     result |-> U64Zero]

NoResults == [o \in Results |-> None]

\* the State a running call works on: the one NewState built inside
\* CheckProofOfWorkByBits or BlockLevel, else the goroutine's own
Receiver(p) ==
    IF op[p] \in {"CheckProofOfWorkByBits", "BlockLevel"}
    THEN locals[p].state[1] ELSE state[p][1]

TypeOK ==
    /\ pc \in [Procs -> {"idle", "ns_target", "ns_snapshot", "ns_zero_time",
                         "ns_zero_nonce", "ns_hash", "ns_restore_time",
                         "ns_restore_nonce", "generate", "ns_return", "calc",
                         "rev1", "rev2", "tradeoff", "rev2_finish", "check", "inc",
                         "bl_parents", "bl_level"}]
    /\ op \in [Procs -> Methods \cup Functions \cup {"none"}]
    /\ calls \in [Procs -> 0..MaxCalls]
    /\ incs \in [Procs -> 0..MaxIncrements]
    /\ built \in BOOLEAN

Init ==
    /\ lookupTable = [i \in 0..(tableSize - 1) |-> U64Zero]
    /\ header \in [Procs -> Headers]
    /\ \A p \in Procs : p # 1 => header[p] = DefaultHeader
    /\ state = [p \in Procs |-> None]
    /\ pc = [p \in Procs |-> "idle"]
    /\ op = [p \in Procs |-> "none"]
    /\ locals = [p \in Procs |-> LocalsInit]
    /\ ret = [p \in Procs |-> NoResults]
    /\ calls = [p \in Procs |-> IF p = 1 THEN MaxCalls ELSE 0]
    /\ incs = [p \in Procs |-> 0]
    /\ built = FALSE
    /\ original = header

(***************************************************************************)
(* Calls and returns                                                       *)
(***************************************************************************)
\* the caller of the package invokes o in goroutine p
Call(p, o, maxBlockLevel) ==
    /\ pc[p] = "idle"
    /\ calls[p] > 0
    /\ o \in Methods => state[p] # None
    /\ o = "IncrementNonce" => incs[p] < MaxIncrements
    /\ o # "BlockLevel" => maxBlockLevel = 0
    /\ calls' = [calls EXCEPT ![p] = @ - 1]
    /\ op' = [op EXCEPT ![p] = o]
    /\ pc' = [pc EXCEPT ![p] = Entry(o)]
    /\ locals' = [locals EXCEPT ![p].maxBlockLevel = maxBlockLevel]
    /\ UNCHANGED <<lookupTable, header, state, ret, incs, built, original>>

\* goroutine p returns value v from the call it is in
Return(p, v) ==
    /\ ret' = [ret EXCEPT ![p][op[p]] = Some(v)]
    /\ pc' = [pc EXCEPT ![p] = "idle"]
    /\ op' = [op EXCEPT ![p] = "none"]
    /\ locals' = [locals EXCEPT ![p] = LocalsInit]

ClearMethodResults(r) ==
    [o \in Results |-> IF o \in Methods THEN None ELSE r[o]]

(***************************************************************************)
(* NewState(header)                                                        *)
(***************************************************************************)
\* target := difficulty.CompactToBig(header.Bits())
NewStateTarget(p) ==
    /\ pc[p] = "ns_target"
    /\ locals' = [locals EXCEPT ![p].target = CompactToBig(header[p].Bits)]
    /\ pc' = [pc EXCEPT ![p] = "ns_snapshot"]
    /\ UNCHANGED <<lookupTable, header, state, op, ret, calls, incs, built, original>>

\* the snapshot taken after the fields were zeroed
NewStateSnapshot_AfterZero(p) ==
    /\ pc[p] = "ns_snapshot"
    /\ locals' = [locals EXCEPT ![p].timestamp = 0, ![p].nonce = U64Zero]
    /\ pc' = [pc EXCEPT ![p] = "ns_zero_time"]
    /\ UNCHANGED <<lookupTable, header, state, op, ret, calls, incs, built, original>>

\* timestamp, nonce := header.TimeInMilliseconds(), header.Nonce()
NewStateSnapshot(p) ==
    /\ pc[p] = "ns_snapshot"
    /\ locals' = [locals EXCEPT ![p].timestamp = header[p].TimeInMilliseconds,
                                ![p].nonce = header[p].Nonce]
    /\ pc' = [pc EXCEPT ![p] = "ns_zero_time"]
    /\ UNCHANGED <<lookupTable, header, state, op, ret, calls, incs, built, original>>

\* header.SetTimeInMilliseconds(0)
NewStateZeroTime(p) ==
    /\ pc[p] = "ns_zero_time"
    /\ header' = [header EXCEPT ![p].TimeInMilliseconds = 0]
    /\ pc' = [pc EXCEPT ![p] = "ns_zero_nonce"]
    /\ UNCHANGED <<lookupTable, state, op, locals, ret, calls, incs, built, original>>

\* the nonce left as it is
NewStateZeroNonce_Skip(p) ==
    /\ pc[p] = "ns_zero_nonce"
    /\ pc' = [pc EXCEPT ![p] = "ns_hash"]
    /\ UNCHANGED <<lookupTable, header, state, op, locals, ret, calls, incs, built, original>>

\* header.SetNonce(0)
NewStateZeroNonce(p) ==
    /\ pc[p] = "ns_zero_nonce"
    /\ header' = [header EXCEPT ![p].Nonce = U64Zero]
    /\ pc' = [pc EXCEPT ![p] = "ns_hash"]
    /\ UNCHANGED <<lookupTable, state, op, locals, ret, calls, incs, built, original>>

\* prePowHash := consensushashing.HeaderHash(header)
NewStateHash(p) ==
    /\ pc[p] = "ns_hash"
    /\ locals' = [locals EXCEPT ![p].prePowHash = HeaderHash(header[p])]
    /\ pc' = [pc EXCEPT ![p] = "ns_restore_time"]
    /\ UNCHANGED <<lookupTable, header, state, op, ret, calls, incs, built, original>>

\* header.SetTimeInMilliseconds(timestamp)
NewStateRestoreTime(p) ==
    /\ pc[p] = "ns_restore_time"
    /\ header' = [header EXCEPT ![p].TimeInMilliseconds = locals[p].timestamp]
    /\ pc' = [pc EXCEPT ![p] = "ns_restore_nonce"]
    /\ UNCHANGED <<lookupTable, state, op, locals, ret, calls, incs, built, original>>

\* header.SetNonce(nonce); generateHoohashLookupTable() is entered
NewStateRestoreNonce(p) ==
    /\ pc[p] = "ns_restore_nonce"
    /\ header' = [header EXCEPT ![p].Nonce = locals[p].nonce]
    /\ pc' = [pc EXCEPT ![p] = "generate"]
    /\ locals' = [locals EXCEPT ![p].i = 0]
    /\ UNCHANGED <<lookupTable, state, op, ret, calls, incs, built, original>>

\* the entry combined with what it held (^= for =)
generateHoohashLookupTable_Accumulate(p) ==
    /\ pc[p] = "generate"
    /\ lookupTable' = [lookupTable EXCEPT
                         ![locals[p].i] = U64Xor(@, TableValue(locals[p].i))]
    /\ locals' = [locals EXCEPT ![p].i = @ + 1]
    /\ pc' = [pc EXCEPT ![p] = IF locals[p].i + 1 = tableSize THEN "ns_return" ELSE "generate"]
    /\ UNCHANGED <<header, state, op, ret, calls, incs, built, original>>

\* one iteration of the loop of generateHoohashLookupTable:
\* lookupTable[i] = binary.BigEndian.Uint64(sha256(seed(i))[:8])
generateHoohashLookupTable(p) ==
    /\ pc[p] = "generate"
    /\ lookupTable' = [lookupTable EXCEPT ![locals[p].i] = TableValue(locals[p].i)]
    /\ locals' = [locals EXCEPT ![p].i = @ + 1]
    /\ pc' = [pc EXCEPT ![p] = IF locals[p].i + 1 = tableSize THEN "ns_return" ELSE "generate"]
    /\ UNCHANGED <<header, state, op, ret, calls, incs, built, original>>

\* the State NewState returns
BuildState(p) ==
    [Target |-> locals[p].target,
     prePowHash |-> locals[p].prePowHash,
     mat |-> generateMatrix(locals[p].prePowHash),
     Timestamp |-> locals[p].timestamp,
     Nonce |-> locals[p].nonce]

\* return &State{...}: to the caller of the package, or to
\* CheckProofOfWorkByBits or BlockLevel
NewStateReturn(p) ==
    /\ pc[p] = "ns_return"
    /\ built' = TRUE
    /\ IF op[p] = "NewState"
       THEN /\ state' = [state EXCEPT ![p] = Some(BuildState(p))]
            /\ incs' = [incs EXCEPT ![p] = 0]
            /\ ret' = [ret EXCEPT ![p] = ClearMethodResults(@)]
            /\ pc' = [pc EXCEPT ![p] = "idle"]
            /\ op' = [op EXCEPT ![p] = "none"]
            /\ locals' = [locals EXCEPT ![p] = LocalsInit]
       ELSE /\ locals' = [locals EXCEPT ![p].state = Some(BuildState(p))]
            /\ pc' = [pc EXCEPT ![p] =
                         IF op[p] = "BlockLevel" THEN "bl_level" ELSE "check"]
            /\ UNCHANGED <<state, incs, ret, op>>
    /\ UNCHANGED <<lookupTable, header, calls, original>>

(***************************************************************************)
(* Methods of State                                                        *)
(***************************************************************************)
\* func (state *State) CalculateProofOfWorkValue() *big.Int, called directly
CalculateProofOfWorkValueCall(p) ==
    /\ pc[p] = "calc"
    /\ Return(p, CalculateProofOfWorkValue(Receiver(p)))
    /\ UNCHANGED <<lookupTable, header, state, calls, incs, built, original>>

\* an evaluation that advances the nonce of its State
CalculateProofOfWorkValueHoohashRev2Return_Bump(p) ==
    /\ pc[p] = "rev2_finish"
    /\ Return(p, Rev2Finish(Receiver(p), locals[p].memoryHardResult, locals[p].result))
    /\ state' = [state EXCEPT ![p][1].Nonce = U64Inc(@)]
    /\ UNCHANGED <<lookupTable, header, calls, incs, built, original>>

CalculateProofOfWorkValueHoohashRev1Call(p) ==
    /\ pc[p] = "rev1"
    /\ Return(p, CalculateProofOfWorkValueHoohashRev1(Receiver(p)))
    /\ UNCHANGED <<lookupTable, header, state, calls, incs, built, original>>

\* rev2 up to the call of timeMemoryTradeoff: result := input
CalculateProofOfWorkValueHoohashRev2Start(p) ==
    /\ pc[p] = "rev2"
    /\ LET memoryHardResult == Rev2MemoryHardResult(Receiver(p))
       IN locals' = [locals EXCEPT ![p].memoryHardResult = memoryHardResult,
                                   ![p].result = BigEndianUint64(memoryHardResult),
                                   ![p].i = 0]
    /\ pc' = [pc EXCEPT ![p] = "tradeoff"]
    /\ UNCHANGED <<lookupTable, header, state, op, ret, calls, incs, built, original>>

\* what a read of lookupTable[index] by p can give: the entry, or, when another
\* goroutine is about to store into the same entry with nothing ordering the
\* two accesses, the stored value or a mix of the two 32-bit halves
ReadOutcomes(p, index) ==
    LET old == lookupTable[index]
        writers == {q \in Procs \ {p} : pc[q] = "generate" /\ locals[q].i = index}
        torn(a, b) == [k \in 1..WordBytes |-> IF k <= 4 THEN a[k] ELSE b[k]]
    IN {old} \cup UNION {{TableValue(locals[q].i),
                          torn(old, TableValue(locals[q].i)),
                          torn(TableValue(locals[q].i), old)} : q \in writers}

\* one iteration of the loop of timeMemoryTradeoff
timeMemoryTradeoff(p) ==
    /\ pc[p] = "tradeoff"
    /\ \E entry \in ReadOutcomes(p, TradeoffIndex(locals[p].result)) :
          locals' = [locals EXCEPT ![p].result = TradeoffRound(@, entry),
                                   ![p].i = @ + 1]
    /\ pc' = [pc EXCEPT ![p] = IF locals[p].i + 1 = Lookups THEN "rev2_finish" ELSE "tradeoff"]
    /\ UNCHANGED <<lookupTable, header, state, op, ret, calls, incs, built, original>>

\* rev2 after timeMemoryTradeoff returned
CalculateProofOfWorkValueHoohashRev2Return(p) ==
    /\ pc[p] = "rev2_finish"
    /\ Return(p, Rev2Finish(Receiver(p), locals[p].memoryHardResult, locals[p].result))
    /\ UNCHANGED <<lookupTable, header, state, calls, incs, built, original>>

\* state.Nonce++
IncrementNonce(p) ==
    /\ pc[p] = "inc"
    /\ state' = [state EXCEPT ![p][1].Nonce = U64Inc(@)]
    /\ incs' = [incs EXCEPT ![p] = @ + 1]
    /\ ret' = [ret EXCEPT ![p] = ClearMethodResults(@)]
    /\ pc' = [pc EXCEPT ![p] = "idle"]
    /\ op' = [op EXCEPT ![p] = "none"]
    /\ locals' = [locals EXCEPT ![p] = LocalsInit]
    /\ UNCHANGED <<lookupTable, header, calls, built, original>>

\* the comparison without equality (< 0 for <= 0)
CheckProofOfWork_Strict(p) ==
    /\ pc[p] = "check"
    /\ LET powNum == CalculateProofOfWorkValue(Receiver(p))
       IN Return(p, Cmp(powNum, Receiver(p).Target) < 0)
    /\ UNCHANGED <<lookupTable, header, state, calls, incs, built, original>>

\* return powNum.Cmp(&state.Target) <= 0, for CheckProofOfWork called
\* directly or by CheckProofOfWorkByBits
CheckProofOfWork(p) ==
    /\ pc[p] = "check"
    /\ LET powNum == CalculateProofOfWorkValue(Receiver(p))
       IN Return(p, Cmp(powNum, Receiver(p).Target) <= 0)
    /\ UNCHANGED <<lookupTable, header, state, calls, incs, built, original>>

(***************************************************************************)
(* BlockLevel(header, maxBlockLevel)                                       *)
(***************************************************************************)
\* no early return for a header without parents
BlockLevelParents_NoShortcut(p) ==
    /\ pc[p] = "bl_parents"
    /\ pc' = [pc EXCEPT ![p] = "ns_target"]
    /\ UNCHANGED <<op, ret, locals>>
    /\ UNCHANGED <<lookupTable, header, state, calls, incs, built, original>>

\* if len(header.DirectParents()) == 0 { return maxBlockLevel }
BlockLevelParents(p) ==
    /\ pc[p] = "bl_parents"
    /\ IF Len(header[p].DirectParents) = 0
       THEN Return(p, [maxBlockLevel |-> locals[p].maxBlockLevel,
                       level |-> locals[p].maxBlockLevel])
       ELSE /\ pc' = [pc EXCEPT ![p] = "ns_target"]
            /\ UNCHANGED <<op, ret, locals>>
    /\ UNCHANGED <<lookupTable, header, state, calls, incs, built, original>>

\* the level without the clamp
Level_NoClamp(maxBlockLevel, proofOfWorkValue) ==
    maxBlockLevel - BitLen(proofOfWorkValue)

\* the level from the length in whole bytes
Level_ByteLen(maxBlockLevel, proofOfWorkValue) ==
    LET level == maxBlockLevel - 8 * Len(proofOfWorkValue.abs)
    IN IF level < 0 THEN 0 ELSE level

\* the level of a block whose work value is proofOfWorkValue
Level(maxBlockLevel, proofOfWorkValue) ==
    LET level == maxBlockLevel - BitLen(proofOfWorkValue)
    IN IF level < 0 THEN 0 ELSE level

BlockLevelReturn(p) ==
    /\ pc[p] = "bl_level"
    /\ LET proofOfWorkValue == CalculateProofOfWorkValue(Receiver(p))
       IN Return(p, [maxBlockLevel |-> locals[p].maxBlockLevel,
                     level |-> Level(locals[p].maxBlockLevel, proofOfWorkValue)])
    /\ UNCHANGED <<lookupTable, header, state, calls, incs, built, original>>

(***************************************************************************)
(* Specification                                                           *)
(***************************************************************************)
Next ==
    \E p \in Procs :
        \/ \E o \in Methods \cup Functions :
             \E m \in MaxBlockLevels \cup {0} : Call(p, o, m)
        \/ NewStateTarget(p)
        \/ NewStateSnapshot(p)
        \/ NewStateZeroTime(p)
        \/ NewStateZeroNonce(p)
        \/ NewStateHash(p)
        \/ NewStateRestoreTime(p)
        \/ NewStateRestoreNonce(p)
        \/ generateHoohashLookupTable(p)
        \/ NewStateReturn(p)
        \/ CalculateProofOfWorkValueCall(p)
        \/ CalculateProofOfWorkValueHoohashRev1Call(p)
        \/ CalculateProofOfWorkValueHoohashRev2Start(p)
        \/ timeMemoryTradeoff(p)
        \/ CalculateProofOfWorkValueHoohashRev2Return(p)
        \/ IncrementNonce(p)
        \/ CheckProofOfWork(p)
        \/ BlockLevelParents(p)
        \/ BlockLevelReturn(p)

Spec == Init /\ [][Next]_vars

(***************************************************************************)
(* A State built without NewState, as a test of the package does, with a   *)
(* target on the boundary of its work value                                *)
(***************************************************************************)
Zeroed(h) == [h EXCEPT !.TimeInMilliseconds = 0, !.Nonce = U64Zero]

\* the State NewState(h) returns, as a function of h
StateOf(h) ==
    [Target |-> CompactToBig(h.Bits),
     prePowHash |-> HeaderHash(Zeroed(h)),
     mat |-> generateMatrix(HeaderHash(Zeroed(h))),
     Timestamp |-> h.TimeInMilliseconds,
     Nonce |-> h.Nonce]

RECURSIVE DecFrom(_, _)
DecFrom(abs, k) ==
    IF abs[k] = 0 THEN DecFrom([abs EXCEPT ![k] = 255], k - 1)
    ELSE [abs EXCEPT ![k] = abs[k] - 1]

\* x - 1 for x > 0
BigDec(x) == [neg |-> FALSE, abs |-> StripZeros(DecFrom(x.abs, Len(x.abs)))]

BoundaryTargets(h) ==
    LET w == CalculateProofOfWorkValue(StateOf(h))
    IN {w, BigDec(w), CompactToBig(h.Bits)}

InitState ==
    /\ lookupTable = [i \in 0..(tableSize - 1) |-> U64Zero]
    /\ header \in [Procs -> {h \in Headers : h.Bits = DefaultHeader.Bits}]
    /\ \A p \in Procs : p # 1 => header[p] = DefaultHeader
    /\ \E t \in BoundaryTargets(header[1]) :
          state = [p \in Procs |->
                      IF p = 1 THEN Some([StateOf(header[1]) EXCEPT !.Target = t])
                      ELSE None]
    /\ pc = [p \in Procs |-> "idle"]
    /\ op = [p \in Procs |-> "none"]
    /\ locals = [p \in Procs |-> LocalsInit]
    /\ ret = [p \in Procs |-> NoResults]
    /\ calls = [p \in Procs |-> IF p = 1 THEN MaxCalls - 1 ELSE 0]
    /\ incs = [p \in Procs |-> 0]
    /\ built = FALSE
    /\ original = header

SpecState == InitState /\ [][Next]_vars

(***************************************************************************)
(* Order on big integers and bit length, stated without Cmp and BitLen     *)
(***************************************************************************)
AbsLess(a, b) ==
    \/ Len(a) < Len(b)
    \/ /\ Len(a) = Len(b)
       /\ \E k \in 1..Len(a) : a[k] < b[k] /\ \A j \in 1..(k - 1) : a[j] = b[j]

BigLess(x, y) ==
    IF x.neg THEN (~y.neg \/ AbsLess(y.abs, x.abs))
    ELSE (~y.neg /\ AbsLess(x.abs, y.abs))

BigLeq(x, y) == x = y \/ BigLess(x, y)

BitLength(x) ==
    IF x.abs = <<>> THEN 0
    ELSE 8 * (Len(x.abs) - 1)
           + (CHOOSE k \in 1..8 : 2 ^ (k - 1) <= x.abs[1] /\ x.abs[1] < 2 ^ k)

\* w + n modulo 2^64, by adding n to the low byte and rippling the carry
RECURSIVE AddFrom(_, _, _)
AddFrom(w, k, carry) ==
    IF k > WordBytes THEN w
    ELSE AddFrom([w EXCEPT ![k] = (w[k] + carry) % 256], k + 1, (w[k] + carry) \div 256)

U64Add(w, n) == AddFrom(w, 1, n)

Got(p, o) == ret[p][o] # None
Val(p, o) == ret[p][o][1]

C1_WitnessBelow ==
    \E p \in Procs :
        /\ Got(p, "CheckProofOfWork")
        /\ state[p] # None
        /\ state[p][1].Target = BigDec(CalculateProofOfWorkValue(state[p][1]))
        /\ Val(p, "CheckProofOfWork") = FALSE

(***************************************************************************)
(* C2: CheckProofOfWorkByBits(h) returns what CheckProofOfWork returns on  *)
(* NewState(h): the work value of h's State against the target decoded    *)
(* from h's bits, with h's own timestamp and nonce.                        *)
(***************************************************************************)
C2_ByBitsIsNewStateThenCheck ==
    \A p \in Procs :
        Got(p, "CheckProofOfWorkByBits") =>
            /\ Val(p, "CheckProofOfWorkByBits")
                 = BigLeq(CalculateProofOfWorkValue(StateOf(original[p])),
                          CompactToBig(original[p].Bits))
            /\ (Got(p, "CheckProofOfWork") /\ incs[p] = 0) =>
                   Val(p, "CheckProofOfWorkByBits") = Val(p, "CheckProofOfWork")

C2_Witness ==
    \E p \in Procs :
        /\ Got(p, "CheckProofOfWorkByBits")
        /\ Got(p, "CheckProofOfWork")
        /\ incs[p] = 0
        /\ Val(p, "CheckProofOfWorkByBits") = TRUE
        /\ original[p].TimeInMilliseconds # 0
        /\ original[p].Nonce # U64Zero

(***************************************************************************)
(* C3: BlockLevel on a header without direct parents returns maxBlockLevel *)
(* at once: no State is built, no work value is computed and the lookup    *)
(* table is not touched.                                                   *)
(***************************************************************************)
C3_GenesisLevelIsMax ==
    [][\A p \in Procs :
          (pc[p] = "bl_parents" /\ pc'[p] # "bl_parents"
             /\ Len(header[p].DirectParents) = 0) =>
              /\ pc'[p] = "idle"
              /\ ret'[p]["BlockLevel"] =
                     Some([maxBlockLevel |-> locals[p].maxBlockLevel,
                           level |-> locals[p].maxBlockLevel])
              /\ locals[p].state = None
              /\ UNCHANGED <<lookupTable, state, header, built>>]_vars

C3_Witness ==
    \E p \in Procs :
        /\ Len(original[p].DirectParents) = 0
        /\ Got(p, "BlockLevel")
        /\ Val(p, "BlockLevel") = [maxBlockLevel |-> 300, level |-> 300]
        /\ ~built
        /\ \A i \in 0..(tableSize - 1) : lookupTable[i] = U64Zero

(***************************************************************************)
(* C4: for a header with a direct parent, BlockLevel is                    *)
(* max(0, maxBlockLevel - bitLength(W)), W the work value of the original  *)
(* variant on NewState(header); it is 0 when bitLength(W) >= maxBlockLevel.*)
(***************************************************************************)
C4_LevelIsClampedDifference ==
    \A p \in Procs :
        (Got(p, "BlockLevel") /\ Len(original[p].DirectParents) >= 1) =>
            LET n == BitLength(CalculateProofOfWorkValue(StateOf(original[p])))
                m == Val(p, "BlockLevel").maxBlockLevel
                level == Val(p, "BlockLevel").level
            IN /\ level = (IF m - n > 0 THEN m - n ELSE 0)
               /\ n >= m => level = 0

C4_Witness ==
    \E p \in Procs :
        /\ Got(p, "BlockLevel")
        /\ Len(original[p].DirectParents) >= 1
        /\ Val(p, "BlockLevel") = [maxBlockLevel |-> 225, level |-> 0]
        /\ BitLength(CalculateProofOfWorkValue(StateOf(original[p]))) >= 225

C4_WitnessPositive ==
    \E p \in Procs :
        /\ Got(p, "BlockLevel")
        /\ Len(original[p].DirectParents) >= 1
        /\ Val(p, "BlockLevel").level > 0

(***************************************************************************)
(* C5: BlockLevel never returns a negative level, whatever the header and  *)
(* maxBlockLevel.                                                          *)
(***************************************************************************)
C5_LevelNeverNegative ==
    \A p \in Procs : Got(p, "BlockLevel") => Val(p, "BlockLevel").level >= 0

(***************************************************************************)
(* C5 as amended: with a direct parent the level is never negative; with   *)
(* no direct parent the level is maxBlockLevel itself, negative exactly    *)
(* when maxBlockLevel is.                                                  *)
(***************************************************************************)
C5_LevelNeverNegativeWithParents ==
    \A p \in Procs :
        Got(p, "BlockLevel") =>
            IF Len(original[p].DirectParents) >= 1
            THEN Val(p, "BlockLevel").level >= 0
            ELSE Val(p, "BlockLevel").level = Val(p, "BlockLevel").maxBlockLevel

C5_Witness ==
    \E p \in Procs :
        /\ Got(p, "BlockLevel")
        /\ Len(original[p].DirectParents) >= 1
        /\ Val(p, "BlockLevel") = [maxBlockLevel |-> -1, level |-> 0]

(***************************************************************************)
(* C6: after n calls of IncrementNonce the nonce is the initial nonce plus *)
(* n modulo 2^64; from 2^64 - 1 it wraps to 0.                             *)
(***************************************************************************)
C6_NonceIsInitialPlusCount ==
    \A p \in Procs :
        state[p] # None =>
            /\ state[p][1].Nonce = U64Add(original[p].Nonce, incs[p])
            /\ (original[p].Nonce = U64Max /\ incs[p] = 1) => state[p][1].Nonce = U64Zero

C6_Witness ==
    \E p \in Procs :
        /\ state[p] # None
        /\ original[p].Nonce = U64Max
        /\ incs[p] = 1
        /\ state[p][1].Nonce = U64Zero

(***************************************************************************)
(* C7: NewState snapshots timestamp and nonce, zeroes both, hashes the     *)
(* header, restores both: HeaderHash is invoked only while both are 0, so  *)
(* prePowHash is the same for headers that differ in timestamp and nonce   *)
(* only; on return the header has the timestamp and nonce it had before    *)
(* the call, and the State holds the same two values.                      *)
(***************************************************************************)
AfterHash ==
    {"ns_restore_time", "ns_restore_nonce", "generate", "ns_return"}

C7_HashWhileZeroedThenRestored ==
    \A p \in Procs :
        /\ pc[p] = "ns_hash" =>
              header[p].TimeInMilliseconds = 0 /\ header[p].Nonce = U64Zero
        /\ pc[p] \in AfterHash =>
              \A h \in Headers :
                  Zeroed(h) = Zeroed(original[p]) =>
                      locals[p].prePowHash = HeaderHash(Zeroed(h))
        /\ pc[p] \in {"ns_return", "idle", "check", "bl_level"} =>
              header[p] = original[p]
        /\ locals[p].state # None =>
              /\ locals[p].state[1].Timestamp = original[p].TimeInMilliseconds
              /\ locals[p].state[1].Nonce = original[p].Nonce
              /\ locals[p].state[1].prePowHash = HeaderHash(Zeroed(original[p]))
        /\ (state[p] # None /\ incs[p] = 0) =>
              /\ state[p][1].Timestamp = original[p].TimeInMilliseconds
              /\ state[p][1].Nonce = original[p].Nonce
              /\ state[p][1].prePowHash = HeaderHash(Zeroed(original[p]))

C7_Witness ==
    \E p \in Procs :
        /\ pc[p] = "idle"
        /\ state[p] # None
        /\ incs[p] = 0
        /\ original[p].TimeInMilliseconds = 77
        /\ original[p].Nonce = U64Max
        /\ header[p] = original[p]
        /\ state[p][1].Nonce = U64Max
        /\ state[p][1].prePowHash # HeaderHash(original[p])

(***************************************************************************)
(* C8: the methods of State leave Target, prePowHash, the matrix and       *)
(* Timestamp as NewState set them, and only IncrementNonce changes Nonce;  *)
(* so a variant evaluated again on the same State, with no IncrementNonce  *)
(* in between, gives the same work value.                                  *)
(***************************************************************************)
ValueMethods == {"CalculateProofOfWorkValue", "CalculateProofOfWorkValueHoohashRev1",
                 "CalculateProofOfWorkValueHoohashRev2", "CheckProofOfWork"}

C8_MethodsKeepState ==
    [][\A p \in Procs :
          /\ (state[p] # None /\ op[p] \in Methods) =>
                /\ state'[p] # None
                /\ state'[p][1].Target = state[p][1].Target
                /\ state'[p][1].prePowHash = state[p][1].prePowHash
                /\ state'[p][1].mat = state[p][1].mat
                /\ state'[p][1].Timestamp = state[p][1].Timestamp
                /\ state'[p][1].Nonce # state[p][1].Nonce => op[p] = "IncrementNonce"
          /\ (locals[p].state # None /\ locals'[p].state # None) =>
                locals'[p].state = locals[p].state
          /\ \A o \in ValueMethods :
                (ret[p][o] # None /\ ret'[p][o] # None) => ret'[p][o] = ret[p][o]]_vars

\* a State not rebuilt since the start whose caller has spent all its calls
\* on CalculateProofOfWorkValueHoohashRev2: the variant was evaluated again
C8_Witness ==
    \E p \in Procs :
        /\ pc[p] = "idle"
        /\ calls[p] = 0
        /\ incs[p] = 0
        /\ state[p] # None
        /\ state[p][1].Target # CompactToBig(original[p].Bits)
        /\ \A o \in Results : Got(p, o) <=> o = "CalculateProofOfWorkValueHoohashRev2"

(***************************************************************************)
(* Concurrent evaluations: every goroutine has its own header and State,   *)
(* they share lookupTable                                                  *)
(***************************************************************************)
\* calls of the goroutines that run concurrently
ConcCalls == <<2, 1>>

InitConc ==
    /\ lookupTable = [i \in 0..(tableSize - 1) |-> U64Zero]
    /\ header = [p \in Procs |-> DefaultHeader]
    /\ state = [p \in Procs |-> None]
    /\ pc = [p \in Procs |-> "idle"]
    /\ op = [p \in Procs |-> "none"]
    /\ locals = [p \in Procs |-> LocalsInit]
    /\ ret = [p \in Procs |-> NoResults]
    /\ calls = [p \in Procs |-> IF p <= Len(ConcCalls) THEN ConcCalls[p] ELSE 0]
    /\ incs = [p \in Procs |-> 0]
    /\ built = FALSE
    /\ original = header

SpecConc == InitConc /\ [][Next]_vars

TableComplete == \A i \in 0..(tableSize - 1) : lookupTable[i] = TableValue(i)

\* goroutine p stores into lookupTable in this step
Writes(p) == pc[p] = "generate" /\ locals'[p].i = locals[p].i + 1

(***************************************************************************)
(* C9: the first construction of the lookup table is guarded and the table *)
(* is read-only afterwards: generateHoohashLookupTable never stores into   *)
(* the table while timeMemoryTradeoff of another evaluation is reading it, *)
(* and nothing stores into the table once the first build is complete.     *)
(***************************************************************************)
C9_TableGuardedThenReadOnly ==
    [][/\ \A p, q \in Procs :
             p # q => ~(pc[p] = "tradeoff" /\ pc[q] = "generate")
       /\ TableComplete => \A p \in Procs : ~Writes(p)]_vars

(***************************************************************************)
(* C10: once a NewState call has returned, every entry i of the table      *)
(* holds the value that depends on i alone, also while other NewState      *)
(* calls rebuild it; timeMemoryTradeoff on a State from NewState reads     *)
(* built entries only and its output is a function of its input word.      *)
(***************************************************************************)
RECURSIVE TradeoffRounds(_, _)
TradeoffRounds(input, n) ==
    IF n = 0 THEN input
    ELSE LET result == TradeoffRounds(input, n - 1)
         IN U64RotL1(U64Xor(result, TableValue(U64Mod(result, tableSize))))

C10_RebuildKeepsTable ==
    /\ built => TableComplete
    /\ \A p \in Procs :
          pc[p] \in {"tradeoff", "rev2_finish"} =>
              /\ locals[p].result
                   = TradeoffRounds(BigEndianUint64(locals[p].memoryHardResult), locals[p].i)
              /\ pc[p] = "tradeoff" =>
                    LET index == TradeoffIndex(locals[p].result)
                    IN ReadOutcomes(p, index) = {TableValue(index)}

\* a read of an entry that another goroutine's rebuild is about to store into
C10_Witness ==
    \E p, q \in Procs :
        /\ p # q
        /\ pc[p] = "tradeoff"
        /\ locals[p].i = 1
        /\ pc[q] = "generate"
        /\ locals[q].i = TradeoffIndex(locals[p].result)
        /\ built

(***************************************************************************)
(* C11: in the rev2 variant only the first 32 bytes of R || V || byte(T64) *)
(* reach the matrix multiplication: the work value is a function of the    *)
(* first 32 bytes of the memoryHardFunction output, and any other delay    *)
(* function output V, tradeoff output T64 or lookup table content gives    *)
(* the same work value.                                                    *)
(***************************************************************************)
\* other outputs of verifiableDelayFunction and timeMemoryTradeoff
OtherVdfResults == {Zeroes(32), [k \in 1..32 |-> 255], Sha256(<<1>>)}
OtherTradeoffResults == {U64Zero, U64Max, TableValue(0)}

\* the work value from the leading hash-sized part of R alone
Rev2OfLeading(mat, leading) ==
    SetBytes(SeqReverse(Blake3Hash(HoohashMatrixMultiplication(mat, leading))))

C11_Rev2UsesLeading32Only ==
    \A p \in Procs :
        /\ (Got(p, "CalculateProofOfWorkValueHoohashRev2") /\ state[p] # None) =>
              Val(p, "CalculateProofOfWorkValueHoohashRev2")
                = Rev2OfLeading(state[p][1].mat,
                                SubSeq(Rev2MemoryHardResult(state[p][1]), 1, 32))
        /\ pc[p] = "rev2_finish" =>
              \A v \in OtherVdfResults : \A t \in OtherTradeoffResults :
                  Rev2Combine(Receiver(p), locals[p].memoryHardResult, v, t)
                    = Rev2Finish(Receiver(p), locals[p].memoryHardResult, locals[p].result)

\* rev2 evaluated on the table before any build, then on the built table
C11_Witness ==
    \E p \in Procs :
        /\ Got(p, "CalculateProofOfWorkValueHoohashRev2")
        /\ state[p] # None
        /\ ~built
        /\ \A i \in 0..(tableSize - 1) : lookupTable[i] = U64Zero
        /\ Len(Rev2MemoryHardResult(state[p][1])) = 64
        /\ verifiableDelayFunction(Rev2MemoryHardResult(state[p][1])) \notin OtherVdfResults

(***************************************************************************)
(* The scratchpad of memoryHardFunction, one iteration at a time           *)
(***************************************************************************)
\* the scratchpad memoryHardFunction starts from
MhfInitial(input) == [j \in 1..memorySize |-> LittleEndianUint64(input)]

\* the value the update of word j (from 0) stores when it reads scratchpad m
WordUpdate(m, j) ==
    LET index1 == U64Mod(m[j + 1], memorySize)
        index2 == U64Mod(U64Shr32(m[j + 1]), memorySize)
    IN LittleEndianUint64(Blake2b512(m[index1 + 1] \o m[index2 + 1]))

\* the update of word j reads a word that an earlier update of the same
\* iteration replaced
ReadsReplaced(m, j) ==
    \/ U64Mod(m[j + 1], memorySize) < j
    \/ U64Mod(U64Shr32(m[j + 1]), memorySize) < j

\* one iteration in the order of the code, in place
InPlaceIteration(m) == MhfLoop(m, MhfIterations - 1, 0)

\* one iteration with every update reading the scratchpad at its start
SnapshotIteration(m) == [k \in 1..memorySize |-> WordUpdate(m, k - 1)]

\* one iteration in place in the order j = memorySize-1, ..., 0
RECURSIVE ReverseFrom(_, _)
ReverseFrom(m, j) ==
    IF j < 0 THEN m
    ELSE ReverseFrom([m EXCEPT ![j + 1] = WordUpdate(m, j)], j - 1)

ReverseIteration(m) == ReverseFrom(m, memorySize - 1)

\* the input of memoryHardFunction in the rev2 evaluation goroutine p is in
MhfInput(p) == Blake3Hash(PowMessage(Receiver(p)))

InRev2(p) == pc[p] \in {"tradeoff", "rev2_finish"}

(***************************************************************************)
(* C12: the word updates of one iteration of memoryHardFunction are        *)
(* independent of each other: done in any order, or all reading the        *)
(* scratchpad as the iteration found it, they give the scratchpad and the  *)
(* 64-byte output of the order j = 0, 1, ...; only the two iterations must *)
(* run in order.                                                           *)
(***************************************************************************)
C12_UpdatesIndependent ==
    \A p \in Procs :
        InRev2(p) =>
            LET m0 == MhfInitial(MhfInput(p))
            IN /\ SnapshotIteration(m0) = InPlaceIteration(m0)
               /\ ReverseIteration(m0) = InPlaceIteration(m0)
               /\ locals[p].memoryHardResult
                    = Concat(SnapshotIteration(SnapshotIteration(m0)), MhfOutWords)
               /\ locals[p].memoryHardResult
                    = Concat(ReverseIteration(ReverseIteration(m0)), MhfOutWords)

(***************************************************************************)
(* C12 as amended: the update of word j reads the words as the updates of  *)
(* words 0..j-1 of the same iteration left them, so the output is that of  *)
(* the in-place order j = 0, 1, ... with the iterations in order; an       *)
(* iteration in which no update reads a replaced word gives the same       *)
(* scratchpad when every update reads the scratchpad at its start.         *)
(***************************************************************************)
\* n is what one iteration in the order of the code makes of m
IsInPlaceResult(m, n) ==
    \A j \in 0..(memorySize - 1) :
        n[j + 1] = WordUpdate([k \in 1..memorySize |-> IF k - 1 < j THEN n[k] ELSE m[k]], j)

C12_UpdatesReadEarlierOnes ==
    \A p \in Procs :
        InRev2(p) =>
            LET m0 == MhfInitial(MhfInput(p))
                m1 == InPlaceIteration(m0)
                m2 == InPlaceIteration(m1)
            IN /\ IsInPlaceResult(m0, m1)
               /\ IsInPlaceResult(m1, m2)
               /\ locals[p].memoryHardResult = Concat(m2, MhfOutWords)
               /\ \A m \in {m0, m1} :
                     (\A j \in 0..(memorySize - 1) : ~ReadsReplaced(m, j)) =>
                         SnapshotIteration(m) = InPlaceIteration(m)

\* an evaluation whose first iteration reads a replaced word and whose
\* output is not the one of the snapshot order
C12_Witness ==
    \E p \in Procs :
        /\ pc[p] = "rev2_finish"
        /\ \E j \in 0..(memorySize - 1) : ReadsReplaced(MhfInitial(MhfInput(p)), j)
        /\ SnapshotIteration(MhfInitial(MhfInput(p)))
             # InPlaceIteration(MhfInitial(MhfInput(p)))
        /\ locals[p].memoryHardResult
             # Concat(SnapshotIteration(SnapshotIteration(MhfInitial(MhfInput(p)))),
                      MhfOutWords)

(***************************************************************************)
(* The work value as a number                                              *)
(***************************************************************************)
\* the base-256 digit of weight 256^i of the big.Int x
DigitAt(x, i) == IF i < Len(x.abs) THEN x.abs[Len(x.abs) - i] ELSE 0

\* the number a magnitude of a few bytes stands for
RECURSIVE NumVal(_, _)
NumVal(abs, n) == IF n = 0 THEN 0 ELSE NumVal(abs, n - 1) * 256 + abs[n]

\* the sum of d[i] * 256^i over the first n bytes of the digest d (i from 0)
RECURSIVE LittleEndianSum(_, _)
LittleEndianSum(d, n) ==
    IF n = 0 THEN 0 ELSE LittleEndianSum(d, n - 1) + d[n] * (256 ^ (n - 1))

MaxShortDigest == 2
ShortDigests == UNION {[1..len -> {0, 1, 2, 255}] : len \in 0..MaxShortDigest}

\* the digests the work value methods hand to toBig
OriginalDigest(s) == bHeavyHash(s.mat, PoWHash(PowMessage(s)))
Rev1Digest(s) ==
    Blake3Hash(HoohashMatrixMultiplication(s.mat, Blake3Hash(PowMessage(s))))

\* x is the digest d read as a little-endian unsigned integer
IsLittleEndianValue(x, d) ==
    /\ ~x.neg
    /\ Len(x.abs) <= Len(d)
    /\ x.abs # <<>> => x.abs[1] # 0
    /\ \A i \in 0..(Len(d) - 1) : DigitAt(x, i) = d[i + 1]

\* the digest of the round-trip example and its reversal
OneFirst == <<1>> \o Zeroes(DomainHashSize - 1)
OneLast == Zeroes(DomainHashSize - 1) \o <<1>>

\* 2^248: bit 248 set and no other
TwoTo248 == [neg |-> FALSE, abs |-> <<1>> \o Zeroes(DomainHashSize - 1)]

\* toBig of every short digest is the sum of d[i] * 256^i
ShortDigestsReadLittleEndian ==
    /\ \A d \in ShortDigests \cup {OneFirst, OneLast} :
          IsLittleEndianValue(toBig(d), d)
    /\ \A d \in ShortDigests :
          NumVal(toBig(d).abs, Len(toBig(d).abs)) = LittleEndianSum(d, Len(d))

OneFirstIs2To248 ==
    /\ toBig(OneFirst) = TwoTo248
    /\ BitLength(toBig(OneFirst)) = 249

OneFirstIsOne ==
    /\ toBig(OneFirst) = [neg |-> FALSE, abs |-> <<1>>]
    /\ BitLength(toBig(OneFirst)) = 1
    /\ toBig(OneLast) = TwoTo248
    /\ BitLength(toBig(OneLast)) = 249

\* every work value returned, and toBig of every short digest, is the
\* little-endian value of its digest: not negative, below 256^Len(d)
DigestsReadLittleEndian ==
    /\ \A p \in Procs :
          state[p] # None =>
             /\ Got(p, "CalculateProofOfWorkValue") =>
                   IsLittleEndianValue(Val(p, "CalculateProofOfWorkValue"),
                                       OriginalDigest(state[p][1]))
             /\ Got(p, "CalculateProofOfWorkValueHoohashRev1") =>
                   IsLittleEndianValue(Val(p, "CalculateProofOfWorkValueHoohashRev1"),
                                       Rev1Digest(state[p][1]))
    /\ ShortDigestsReadLittleEndian

(***************************************************************************)
(* C13: toBig reads a digest as a little-endian unsigned integer: the work *)
(* value is the sum of d[i] * 256^i, so a returned work value has the      *)
(* bytes of its 32-byte digest as base-256 digits, is not negative and is  *)
(* below 2^256, and the digest 0x01 followed by 31 zero bytes gives 2^248. *)
(***************************************************************************)
C13_LittleEndianAndOneFirstIs2To248 ==
    /\ DigestsReadLittleEndian
    /\ OneFirstIs2To248

(***************************************************************************)
(* C13 as amended: toBig reads a digest as a little-endian unsigned        *)
(* integer, the sum of d[i] * 256^i, below 2^256 for a 32-byte digest; the *)
(* digest 0x01 followed by 31 zero bytes gives 1, and the digest of 31     *)
(* zero bytes followed by 0x01 gives 2^248.                                *)
(***************************************************************************)
C13_LittleEndianAndOneFirstIsOne ==
    /\ DigestsReadLittleEndian
    /\ OneFirstIsOne

\* a returned work value of a digest that is not its own reversal
C13_Witness ==
    \E p \in Procs :
        /\ state[p] # None
        /\ Got(p, "CalculateProofOfWorkValue")
        /\ Len(OriginalDigest(state[p][1])) = DomainHashSize
        /\ Len(Val(p, "CalculateProofOfWorkValue").abs) = DomainHashSize
        /\ Val(p, "CalculateProofOfWorkValue").abs # OriginalDigest(state[p][1])
        /\ OriginalDigest(state[p][1])[1] # OriginalDigest(state[p][1])[DomainHashSize]

=============================================================================
